---- MODULE Spec2Model ----
(***************************************************************************)
(* Verification model of rnn-fxpts:                                        *)
(*   - the seeded frontier loop of tb_combo.py (found / seeds / new /      *)
(*     statuses, one traverse call per popped seed), and                   *)
(*   - the run_*_experiments orchestrators of fxpt_experiments.py (jobs,   *)
(*     worker pool, per-stage checkpoint files, batch-level pickle).       *)
(*                                                                         *)
(* Points are vectors of dimension N = 1 whose coordinate is an integer    *)
(* number of grid units of 2^-22, so that the tolerance 2^-21 of           *)
(* `neighbors` is 2 units.  Python lists are 0-based, the sequences here   *)
(* are 1-based: found[k+1] below is found[k] of the script.                *)
(***************************************************************************)
EXTENDS Integers, Sequences, FiniteSets, TLC

\* ---------------------------------------------------------------- bounds
\* largest coordinate of a point (points are 0 .. MaxCoord)
MaxCoord == 4
\* most raw points of the initial traverse result, alpha minima included
MaxFound == 3
\* most raw points of the baseline result, the reference set
MaxRef == 2
\* most points one traverse call returns besides the seed
MaxOut == 1

\* jobs (sampled networks) of one batch
MaxJobs == 3
\* largest worker count num_procs (0 runs the jobs in the calling process)
MaxProcs == 2
\* distinct outcomes (measured runtime, status, counts) one solver call of a
\* job may have
MaxVal == 2
\* most checkpoint reads or writes of jobs that fail with IOError in one run
MaxFail == 1

\* largest network size N of the test data
MaxSize == 2
\* most points of the first argument of a point-set operation applied on its own
MaxA == 3
\* most points of its second argument
MaxB == 2

\* networks of the test data baseline_comparison_experiments runs on
MaxPipeJobs == 2
\* most jobs of a batch one of whose jobs hangs
MaxBatch == 9
\* most workers of its pool
MaxPool == 2
\* most components tallied by the samples before the one observed
MaxPrior == 1

\* ------------------------------------------------------------- constants
\* tb_combo.py:9  neighbors: fabs(X-y) < 2**-21, in grid units of 2^-22
Tol == 2

Point == 0 .. MaxCoord

\* all point lists of length at most n
BSeq(n) == UNION {[1 .. m -> Point] : m \in 0 .. n}

SetOf(s) == {s[i] : i \in 1 .. Len(s)}

\* statuses a traverse call returns
Status == {"Success", "Closed loop detected", "Failure"}

\* tolerances the post-processing predicate may have relative to Tol:
\* finer, equal, coarser
IdTols == {Tol - 1, Tol, Tol + 1}

VARIABLES
    idtol,      \* tolerance of the predicate rfx.post_process_fxpts clusters under
    solver,     \* rfx.traverse as a function: seed -> <<status, fxV>>
    B,          \* npz['B']['fxV_unique'], the reference set
    found,      \* list found[0..k]
    seeds,      \* the frontier
    seed,       \* list seed[0..k]
    new,        \* list new[0..k]
    statuses,   \* list statuses[0..k]
    k,          \* current component
    cloops,     \* closed-loop count of the sample (-1 before it is computed)
    all_cloops, \* closed loops of the samples tallied so far
    all_comps,  \* components (traverse calls) of the samples tallied so far
    lpc         \* position in the script: "loop" or "done"

lvars == <<idtol, solver, B, found, seeds, seed, new, statuses, k, cloops,
           all_cloops, all_comps, lpc>>

VARIABLES
    phase,        \* which orchestrator runs: "traverse", "baseline" or "TvB"
    num_procs,    \* its num_procs argument
    badjob,       \* the job whose arrays mismatch in dimension (0: none)
    run,          \* 1 in the first run of the batch, 2 in a re-run
    opc,          \* position of the orchestrator
    oerr,         \* the exception that left the orchestrator ("none" if none)
    jpc,          \* per job: <<stage, step>> of its unit of work
    jval,         \* per job: the outcome of its solver call (0: not yet run)
    jerr,         \* per job: the exception that left it ("none" if none)
    pkl,          \* results/<result_key>.pkl per job
    npz,          \* results/<result_key>.npz per job
    value,        \* the result list under construction (pool.map's _value)
    pool_results, \* the variable pool_results
    batch,        \* the batch-level pickle results/<phase>_<test_data_id>.pkl
    bwrites,      \* times the batch-level pickle was dumped in this run
    ret,          \* what the orchestrator returned
    pkl0,         \* the job pickles as a re-run found them
    ooo           \* some job returned while an earlier job had not

ovars == <<phase, num_procs, badjob, run, opc, oerr, jpc, jval, jerr, pkl, npz,
           value, pool_results, batch, bwrites, ret, pkl0, ooo>>

VARIABLES
    test_data_id,   \* the test_data_id argument of the orchestrator
    network_sizes,  \* network_sizes of the loaded test data
    num_samples,    \* num_samples of the loaded test data
    result_key      \* per job: the result_key its checkpoints are saved under

kvars == <<test_data_id, network_sizes, num_samples, result_key>>

VARIABLES
    setA,   \* first argument of a point-set operation
    setB,   \* second argument
    out1,   \* what the operation returned
    out2,   \* what it returned when applied to out1 again
    apc     \* the operation applied ("in" before any)

avars == <<setA, setB, out1, out2, apc>>

VARIABLES
    pprocs,   \* num_procs of baseline_comparison_experiments
    ppc,      \* its position: the phase that runs, "returned" or "raised"
    pjob,     \* per job: stages of the running phase it has been through
    prt,      \* per job: runtime its traverse job measured in this run (0: none)
    tfile,    \* per job: results/traverse_<...>.pkl and .npz
    bfile,    \* per job: results/baseline_<...>.pkl and .npz
    timeout,  \* per job: timeout passed to its baseline job (0: none)
    tvbread   \* per job: the traverse and baseline records its TvB job loaded

pvars == <<pprocs, ppc, pjob, prt, tfile, bfile, timeout, tvbread>>

VARIABLES
    hn,      \* jobs of the batch handed to pool.map
    hprocs,  \* workers of the pool
    hung,    \* the job whose solver call never returns
    hstat    \* per job: "wait", "run" or "done"

hvars == <<hn, hprocs, hung, hstat>>

vars == <<lvars, ovars, kvars, avars, pvars, hvars>>

\* ------------------------------------------------------ point-set algebra
absdiff(x, y) == IF x < y THEN y - x ELSE x - y

\* two points are within tolerance tol of each other in every coordinate
within(x, y, tol) == absdiff(x, y) < tol

\* plausible slip: a point is not compared with an equal point
neighbors_of_other_points(x, y) == x # y /\ within(x, y, Tol)

\* tb_combo.py:9
neighbors(x, y) == within(x, y, Tol)

\* EquivalenceClusterer: the first unassigned point becomes a representative
\* and removes every remaining point directly equivalent to it
RECURSIVE get_unique_points_recursively(_, _)
get_unique_points_recursively(V, tol) ==
    IF V = <<>> THEN <<>>
    ELSE <<Head(V)>> \o
         get_unique_points_recursively(
             SelectSeq(Tail(V), LAMBDA y : ~within(Head(V), y, tol)), tol)

\* rfx.post_process_fxpts(W, fxV)[0]: the candidates clustered under its own
\* predicate (rfx.identical_fixed_points), of tolerance idtol
post_process_fxpts(fxV) == get_unique_points_recursively(fxV, idtol)

\* plausible slip: the arguments of the difference exchanged
setdiff_swapped(fxV1, fxV2) ==
    SelectSeq(fxV2, LAMBDA x : ~\E j \in 1 .. Len(fxV1) : neighbors(fxV1[j], x))

\* plausible slip: the negation of the test lost
setdiff_not_negated(fxV1, fxV2) ==
    SelectSeq(fxV1, LAMBDA x : \E j \in 1 .. Len(fxV2) : neighbors(fxV2[j], x))

\* plausible change: the difference clustered before it is returned
setdiff_dedup(fxV1, fxV2) ==
    get_unique_points_recursively(
        SelectSeq(fxV1,
                  LAMBDA x : ~\E j \in 1 .. Len(fxV2) : neighbors(fxV2[j], x)),
        Tol)

\* tb_combo.py:11-20
setdiff(fxV1, fxV2) ==
    SelectSeq(fxV1, LAMBDA x : ~\E j \in 1 .. Len(fxV2) : neighbors(fxV2[j], x))

\* plausible slip: the new points concatenated before the found set
union_new_first(fxV1, fxV2) == get_unique_points_recursively(fxV2 \o fxV1, Tol)

\* plausible slip: the new points never reach the found set
union_first_only(fxV1, fxV2) == get_unique_points_recursively(fxV1, Tol)

\* plausible slip: the concatenation returned as it is
union_no_cluster(fxV1, fxV2) == fxV1 \o fxV2

\* plausible slip: a point dropped when the next point is its neighbor, only
\* consecutive points compared
union_consecutive(fxV1, fxV2) ==
    LET X   == fxV1 \o fxV2
        idx == SelectSeq([j \in 1 .. Len(X) |-> j],
                         LAMBDA j : j = Len(X) \/ ~neighbors(X[j], X[j + 1]))
    IN  [n \in 1 .. Len(idx) |-> X[idx[n]]]

\* plausible change: only the points of the second list are compared, with
\* those of the first
union_cross_only(fxV1, fxV2) ==
    fxV1 \o SelectSeq(fxV2,
                      LAMBDA x : ~\E j \in 1 .. Len(fxV1) : neighbors(fxV1[j], x))

\* tb_combo.py:22-25
union(fxV1, fxV2) == get_unique_points_recursively(fxV1 \o fxV2, Tol)

\* tb_combo.py:27-38
add_alpha_mins(fxV, slowV) == post_process_fxpts(fxV \o slowV)

\* ---------------------------------------------------------- frontier loop
\* what one traverse call may return: a status and at most MaxOut points
SolverOut == Status \X BSeq(MaxOut)

\* s without its i-th element
RemoveAt(s, i) == SubSeq(s, 1, i - 1) \o SubSeq(s, i + 1, Len(s))

\* plausible change: the points of a run that did not succeed are discarded
raw_points_success_only(sd, status, fxV) ==
    IF status = "Success" THEN <<sd>> \o fxV ELSE <<sd>>

\* plausible change: a failed run contributes nothing, not even its seed
raw_points_none_on_failure(sd, status, fxV) ==
    IF status = "Failure" THEN <<>> ELSE <<sd>> \o fxV

\* tb_combo.py:77-102: nothing is done on status (if status=='Success': pass);
\* the seed is concatenated in front of whatever the run returned
raw_points(sd, status, fxV) == <<sd>> \o fxV

\* tb_combo.py:45-59: the state of one sample before the while loop.  The
\* first n raw points are those of the traverse run, the others the alpha
\* minima added by add_alpha_mins; both result files hold post-processed sets.
LoopInit ==
    \E tol \in IdTols, TfxV \in BSeq(MaxFound), n \in 0 .. MaxFound,
       BfxV \in BSeq(MaxRef) :
        /\ n <= Len(TfxV)
        /\ idtol = tol
        /\ B = post_process_fxpts(BfxV)
        /\ found = <<add_alpha_mins(post_process_fxpts(SubSeq(TfxV, 1, n)),
                                    SubSeq(TfxV, n + 1, Len(TfxV)))>>
        /\ seeds = setdiff(B, found[1])
        /\ \E g \in [SetOf(seeds) -> SolverOut] :
               solver = [p \in Point |->
                            IF p \in SetOf(seeds) THEN g[p]
                            ELSE <<"Failure", <<>>>>]
        /\ seed = <<0>>
        /\ new = <<<<>>>>
        /\ statuses = <<"success">>
        /\ k = 0
        /\ cloops = -1
        /\ lpc = "loop"

\* tb_combo.py:67-107 with the seed taken at position i of the frontier
\* (the script takes position 0, i.e. i = 1 here)
StepAt(i) ==
    /\ lpc = "loop"
    /\ Len(seeds) > 0
    /\ i \in 1 .. Len(seeds)
    /\ LET sd     == seeds[i]
           rest   == RemoveAt(seeds, i)
           status == solver[sd][1]
           fxV    == post_process_fxpts(raw_points(sd, status, solver[sd][2]))
       IN  /\ k' = k + 1
           /\ seed' = Append(seed, sd)
           /\ statuses' = Append(statuses, status)
           /\ new' = Append(new, fxV)
           /\ found' = Append(found, union(found[k + 1], fxV))
           /\ seeds' = setdiff(rest, fxV)
    /\ UNCHANGED <<idtol, solver, B, cloops, all_cloops, all_comps, lpc>>
    /\ UNCHANGED <<ovars, kvars, avars, pvars, hvars>>

\* plausible change: the frontier used as a stack
Step_last == StepAt(Len(seeds))

\* one iteration of the while loop of the script
Step == StepAt(1)

\* plausible slip: the placeholder entry counted as a component
Tally_with_placeholder ==
    /\ lpc = "loop"
    /\ Len(seeds) = 0
    /\ cloops' = Cardinality({j \in 2 .. Len(statuses) :
                                 statuses[j] = "Closed loop detected"})
    /\ all_cloops' = all_cloops + cloops'
    /\ all_comps' = all_comps + Len(statuses)
    /\ lpc' = "done"
    /\ UNCHANGED <<idtol, solver, B, found, seeds, seed, new, statuses, k>>
    /\ UNCHANGED <<ovars, kvars, avars, pvars, hvars>>

\* tb_combo.py:114-117: the tally of the sample, added to the totals
Tally ==
    /\ lpc = "loop"
    /\ Len(seeds) = 0
    /\ cloops' = Cardinality({j \in 2 .. Len(statuses) :
                                 statuses[j] = "Closed loop detected"})
    /\ all_cloops' = all_cloops + cloops'
    /\ all_comps' = all_comps + (Len(statuses) - 1)
    /\ lpc' = "done"
    /\ UNCHANGED <<idtol, solver, B, found, seeds, seed, new, statuses, k>>
    /\ UNCHANGED <<ovars, kvars, avars, pvars, hvars>>

\* ------------------------------------------------------------ orchestrator
\* One run_*_experiments call: jobs 1 .. NJobs in submission order.  With
\* at most 4 * num_procs jobs pool.map hands the jobs out one by one
\* (chunksize 1).
NJobs == MaxJobs

Jobs == 1 .. NJobs

Vals == 1 .. MaxVal

Phases == {"traverse", "baseline", "TvB"}

\* a checkpoint record: the job's result_key, the outcome of its solver call
\* and the last stage whose fields it holds
Rec(key, val, stage) == [key |-> key, val |-> val, stage |-> stage]

\* no file under that name
Absent == Rec(0, 0, -1)

\* a file opened with 'w' and not (or not completely) dumped
Truncated == Rec(0, 0, 0)

\* stages of a unit of work: test_traverse and test_baseline save after the
\* solver run, the post-processing and the ground-truth check; test_TvB
\* after loading, the union and the two distance statistics
NumStages(ph) == IF ph = "TvB" THEN 4 ELSE 3

\* whether stage s also saves the arrays (test_TvB saves only the summary
\* after its distance statistics)
WritesNpz(ph, s) == ph # "TvB" \/ s <= 2

\* the stage whose computation first touches arrays of mismatching dimension:
\* the ground-truth check over V, in test_TvB the union under
\* identical_fixed_points(W, ...)
RaiseStage(ph) == IF ph = "TvB" THEN 2 ELSE 3

\* save_result and save_npz as the orchestrators set them
save_result == phase # "traverse" \/ num_procs > 0

\* if num_procs < 1: don't multiprocess
Sequential == num_procs < 1

Active(j) == jpc[j][1] > 0

Done(j) == jpc[j] = <<0, "done">>

Raised(j) == jpc[j] = <<0, "raised">>

\* the processes that execute jobs are at work: the caller itself in the
\* list comprehension, the pool's workers until pool.map returns or raises
\* (the pool is torn down with the caller's frame; everything a worker can
\* still do after a job failed it can do here before the caller notices)
WorkersAlive == opc = "run"

\* where a job goes when a stage and its saves are through
AfterStage(s) ==
    IF s < NumStages(phase) THEN <<s + 1, "compute">> ELSE <<s, "return">>

AfterCompute(s) ==
    IF save_result THEN <<s, "pkl_open">> ELSE AfterStage(s)

AfterPkl(s) ==
    IF WritesNpz(phase, s) THEN <<s, "npz_open">> ELSE AfterStage(s)

\* one more checkpoint access of a job may fail
MayFail == Cardinality({j \in Jobs : jerr[j] = "IOError"}) < MaxFail

\* plausible change: the wrapper catches the exception and returns nothing
JobOutcomeOnError_caught == <<0, "done">>

\* pool_test_*: no try/except, an exception leaves the unit of work
JobOutcomeOnError == <<0, "raised">>

\* an exception e leaves job j's unit of work; in the calling process it
\* leaves the orchestrator with it
JobRaises(j, e) ==
    /\ jpc' = [jpc EXCEPT ![j] = JobOutcomeOnError]
    /\ jerr' = [jerr EXCEPT ![j] = e]
    /\ IF Sequential /\ JobOutcomeOnError = <<0, "raised">>
       THEN opc' = "raised" /\ oerr' = e
       ELSE UNCHANGED <<opc, oerr>>

\* plausible slip: results collected in completion order
StoreResult_append(v, j, r) ==
    LET free == {i \in Jobs : v[i] = Absent}
        i == CHOOSE x \in free : \A y \in free : x <= y
    IN  [v EXCEPT ![i] = r]

\* the result of job j lands at position j of the list
StoreResult(v, j, r) == [v EXCEPT ![j] = r]

\* plausible slip: the orchestrator goes on with the first result
AllReturned_first == \E j \in Jobs : Done(j)

\* pool.map / the list comprehension is through: every job returned
AllReturned == \A j \in Jobs : Done(j)

\* the orchestrator's part of the state before its first statement
OrchInit ==
    /\ phase \in Phases
    /\ num_procs \in 0 .. MaxProcs
    /\ badjob \in 0 .. NJobs
    /\ run = 1
    /\ opc = "setup"
    /\ oerr = "none"
    /\ jpc = [j \in Jobs |-> <<0, "wait">>]
    /\ jval = [j \in Jobs |-> 0]
    /\ jerr = [j \in Jobs |-> "none"]
    /\ pkl = [j \in Jobs |-> Absent]
    /\ npz = [j \in Jobs |-> Absent]
    /\ value = [j \in Jobs |-> Absent]
    /\ pool_results = <<>>
    /\ batch = <<>>
    /\ bwrites = 0
    /\ ret = <<>>
    /\ pkl0 = [j \in Jobs |-> Absent]
    /\ ooo = FALSE

\* no orchestrator runs
OrchIdle ==
    /\ phase = "none"
    /\ num_procs = 0
    /\ badjob = 0
    /\ run = 0
    /\ opc = "idle"
    /\ oerr = "none"
    /\ jpc = <<>>
    /\ jval = <<>>
    /\ jerr = <<>>
    /\ pkl = <<>>
    /\ npz = <<>>
    /\ value = <<>>
    /\ pool_results = <<>>
    /\ batch = <<>>
    /\ bwrites = 0
    /\ ret = <<>>
    /\ pkl0 = <<>>
    /\ ooo = FALSE

\* the frontier script does not run
LoopIdle ==
    /\ idtol = Tol
    /\ solver = <<>>
    /\ B = <<>>
    /\ found = <<>>
    /\ seeds = <<>>
    /\ seed = <<>>
    /\ new = <<>>
    /\ statuses = <<>>
    /\ k = 0
    /\ cloops = -1
    /\ all_cloops = 0
    /\ all_comps = 0
    /\ lpc = "idle"

\* load_test_data and the pool_args loop succeed
Setup ==
    /\ opc = "setup"
    /\ opc' = "run"
    /\ UNCHANGED <<phase, num_procs, badjob, run, oerr, jpc, jval, jerr, pkl,
                   npz, value, pool_results, batch, bwrites, ret, pkl0, ooo>>
    /\ UNCHANGED <<lvars, kvars, avars, pvars, hvars>>

\* a read of the setup fails: the test data, or in run_baseline_experiments
\* the pickle of a traverse job
SetupFail ==
    /\ opc = "setup"
    /\ opc' = "raised"
    /\ oerr' = "IOError in setup"
    /\ UNCHANGED <<phase, num_procs, badjob, run, jpc, jval, jerr, pkl, npz,
                   value, pool_results, batch, bwrites, ret, pkl0, ooo>>
    /\ UNCHANGED <<lvars, kvars, avars, pvars, hvars>>

\* a process takes the next job: the list comprehension after the previous
\* job returned, a free worker of the pool the next task of the queue
JobStart(j) ==
    /\ WorkersAlive
    /\ jpc[j] = <<0, "wait">>
    /\ \A i \in 1 .. j - 1 : jpc[i] # <<0, "wait">>
    /\ IF Sequential
       THEN \A i \in 1 .. j - 1 : Done(i)
       ELSE Cardinality({i \in Jobs : Active(i)}) < num_procs
    /\ jpc' = [jpc EXCEPT ![j] = <<1, "compute">>]
    /\ UNCHANGED <<phase, num_procs, badjob, run, opc, oerr, jval, jerr, pkl,
                   npz, value, pool_results, batch, bwrites, ret, pkl0, ooo>>
    /\ UNCHANGED <<lvars, kvars, avars, pvars, hvars>>

\* the computation of a stage: stage 1 is the solver call (in test_TvB the
\* loading of both result files), whose outcome v the later stages extend
Compute(j) ==
    /\ WorkersAlive
    /\ Active(j)
    /\ jpc[j][2] = "compute"
    /\ LET s == jpc[j][1]
       IN  IF s = RaiseStage(phase) /\ badjob = j
           THEN /\ JobRaises(j, "ValueError")
                /\ UNCHANGED jval
           ELSE /\ jpc' = [jpc EXCEPT ![j] = AfterCompute(s)]
                /\ IF s = 1
                   THEN \E v \in Vals : jval' = [jval EXCEPT ![j] = v]
                   ELSE UNCHANGED jval
                /\ UNCHANGED <<jerr, opc, oerr>>
    /\ UNCHANGED <<phase, num_procs, badjob, run, pkl, npz, value,
                   pool_results, batch, bwrites, ret, pkl0, ooo>>
    /\ UNCHANGED <<lvars, kvars, avars, pvars, hvars>>

\* test_TvB: np.load of the baseline or traverse arrays fails
ReadFail(j) ==
    /\ WorkersAlive
    /\ MayFail
    /\ phase = "TvB"
    /\ jpc[j] = <<1, "compute">>
    /\ JobRaises(j, "IOError")
    /\ UNCHANGED <<phase, num_procs, badjob, run, jval, pkl, npz, value,
                   pool_results, batch, bwrites, ret, pkl0, ooo>>
    /\ UNCHANGED <<lvars, kvars, avars, pvars, hvars>>

\* save_pkl_file: open(filename, 'w') truncates the file
PklOpen(j) ==
    /\ WorkersAlive
    /\ Active(j)
    /\ jpc[j][2] = "pkl_open"
    /\ pkl' = [pkl EXCEPT ![j] = Truncated]
    /\ jpc' = [jpc EXCEPT ![j] = <<jpc[j][1], "pkl_dump">>]
    /\ UNCHANGED <<phase, num_procs, badjob, run, opc, oerr, jval, jerr, npz,
                   value, pool_results, batch, bwrites, ret, pkl0, ooo>>
    /\ UNCHANGED <<lvars, kvars, avars, pvars, hvars>>

\* save_pkl_file: pkl.dump and close
PklDump(j) ==
    /\ WorkersAlive
    /\ Active(j)
    /\ jpc[j][2] = "pkl_dump"
    /\ pkl' = [pkl EXCEPT ![j] = Rec(j, jval[j], jpc[j][1])]
    /\ jpc' = [jpc EXCEPT ![j] = AfterPkl(jpc[j][1])]
    /\ UNCHANGED <<phase, num_procs, badjob, run, opc, oerr, jval, jerr, npz,
                   value, pool_results, batch, bwrites, ret, pkl0, ooo>>
    /\ UNCHANGED <<lvars, kvars, avars, pvars, hvars>>

\* save_npz_file: open(filename, "w") truncates the file
NpzOpen(j) ==
    /\ WorkersAlive
    /\ Active(j)
    /\ jpc[j][2] = "npz_open"
    /\ npz' = [npz EXCEPT ![j] = Truncated]
    /\ jpc' = [jpc EXCEPT ![j] = <<jpc[j][1], "npz_dump">>]
    /\ UNCHANGED <<phase, num_procs, badjob, run, opc, oerr, jval, jerr, pkl,
                   value, pool_results, batch, bwrites, ret, pkl0, ooo>>
    /\ UNCHANGED <<lvars, kvars, avars, pvars, hvars>>

\* save_npz_file: np.savez and close
NpzDump(j) ==
    /\ WorkersAlive
    /\ Active(j)
    /\ jpc[j][2] = "npz_dump"
    /\ npz' = [npz EXCEPT ![j] = Rec(j, jval[j], jpc[j][1])]
    /\ jpc' = [jpc EXCEPT ![j] = AfterStage(jpc[j][1])]
    /\ UNCHANGED <<phase, num_procs, badjob, run, opc, oerr, jval, jerr, pkl,
                   value, pool_results, batch, bwrites, ret, pkl0, ooo>>
    /\ UNCHANGED <<lvars, kvars, avars, pvars, hvars>>

\* open, dump or savez of a checkpoint raises IOError: a failed open leaves
\* the file as it was, a failed dump leaves it truncated
WriteFail(j) ==
    /\ WorkersAlive
    /\ Active(j)
    /\ MayFail
    /\ jpc[j][2] \in {"pkl_open", "pkl_dump", "npz_open", "npz_dump"}
    /\ JobRaises(j, "IOError")
    /\ UNCHANGED <<phase, num_procs, badjob, run, jval, pkl, npz, value,
                   pool_results, batch, bwrites, ret, pkl0, ooo>>
    /\ UNCHANGED <<lvars, kvars, avars, pvars, hvars>>

\* the unit of work returns its results dictionary
JobReturn(j) ==
    /\ WorkersAlive
    /\ Active(j)
    /\ jpc[j][2] = "return"
    /\ jpc' = [jpc EXCEPT ![j] = <<0, "done">>]
    /\ value' = StoreResult(value, j, Rec(j, jval[j], NumStages(phase)))
    /\ ooo' = (ooo \/ \E i \in 1 .. j - 1 : ~Done(i))
    /\ UNCHANGED <<phase, num_procs, badjob, run, opc, oerr, jval, jerr, pkl,
                   npz, pool_results, batch, bwrites, ret, pkl0>>
    /\ UNCHANGED <<lvars, kvars, avars, pvars, hvars>>

\* pool.map re-raises in the caller the exception of a job
MapRaise ==
    /\ ~Sequential
    /\ opc = "run"
    /\ \E j \in Jobs :
           /\ Raised(j)
           /\ oerr' = jerr[j]
    /\ opc' = "raised"
    /\ UNCHANGED <<phase, num_procs, badjob, run, jpc, jval, jerr, pkl, npz,
                   value, pool_results, batch, bwrites, ret, pkl0, ooo>>
    /\ UNCHANGED <<lvars, kvars, avars, pvars, hvars>>

\* pool.map (then close and join) or the list comprehension returns the list
MapReturn ==
    /\ opc = "run"
    /\ AllReturned
    /\ ~\E j \in Jobs : Raised(j)
    /\ pool_results' = value
    /\ opc' = "save_open"
    /\ UNCHANGED <<phase, num_procs, badjob, run, oerr, jpc, jval, jerr, pkl,
                   npz, value, batch, bwrites, ret, pkl0, ooo>>
    /\ UNCHANGED <<lvars, kvars, avars, pvars, hvars>>

\* results_file = open(..., 'w')
BatchOpen ==
    /\ opc = "save_open"
    /\ batch' = <<Truncated>>
    /\ opc' = "save_dump"
    /\ UNCHANGED <<phase, num_procs, badjob, run, oerr, jpc, jval, jerr, pkl,
                   npz, value, pool_results, bwrites, ret, pkl0, ooo>>
    /\ UNCHANGED <<lvars, kvars, avars, pvars, hvars>>

\* pkl.dump(pool_results, results_file) and close
BatchDump ==
    /\ opc = "save_dump"
    /\ batch' = pool_results
    /\ bwrites' = bwrites + 1
    /\ opc' = "return"
    /\ UNCHANGED <<phase, num_procs, badjob, run, oerr, jpc, jval, jerr, pkl,
                   npz, value, pool_results, ret, pkl0, ooo>>
    /\ UNCHANGED <<lvars, kvars, avars, pvars, hvars>>

\* open or dump of the batch-level pickle raises IOError
BatchFail ==
    /\ opc \in {"save_open", "save_dump"}
    /\ opc' = "raised"
    /\ oerr' = "IOError in batch save"
    /\ UNCHANGED <<phase, num_procs, badjob, run, jpc, jval, jerr, pkl, npz,
                   value, pool_results, batch, bwrites, ret, pkl0, ooo>>
    /\ UNCHANGED <<lvars, kvars, avars, pvars, hvars>>

\* return pool_results
OrchReturn ==
    /\ opc = "return"
    /\ ret' = pool_results
    /\ opc' = "returned"
    /\ UNCHANGED <<phase, num_procs, badjob, run, oerr, jpc, jval, jerr, pkl,
                   npz, value, pool_results, batch, bwrites, pkl0, ooo>>
    /\ UNCHANGED <<lvars, kvars, avars, pvars, hvars>>

\* the batch is killed (the caller and every worker): only the files remain
Kill ==
    /\ run = 1
    /\ opc \in {"setup", "run", "save_open", "save_dump", "return"}
    /\ opc' = "killed"
    /\ oerr' = "none"
    /\ jpc' = [j \in Jobs |-> <<0, "dead">>]
    /\ jval' = [j \in Jobs |-> 0]
    /\ jerr' = [j \in Jobs |-> "none"]
    /\ value' = [j \in Jobs |-> Absent]
    /\ pool_results' = <<>>
    /\ ooo' = FALSE
    /\ UNCHANGED <<phase, num_procs, badjob, run, pkl, npz, batch, bwrites,
                   ret, pkl0>>
    /\ UNCHANGED <<lvars, kvars, avars, pvars, hvars>>

\* the same batch is run again over the files the killed run left
Rerun ==
    /\ run = 1
    /\ opc = "killed"
    /\ run' = 2
    /\ opc' = "setup"
    /\ jpc' = [j \in Jobs |-> <<0, "wait">>]
    /\ pkl0' = pkl
    /\ bwrites' = 0
    /\ UNCHANGED <<phase, num_procs, badjob, oerr, jval, jerr, pkl, npz,
                   value, pool_results, batch, ret, ooo>>
    /\ UNCHANGED <<lvars, kvars, avars, pvars, hvars>>

\* the steps of the units of work
JobWork ==
    \E j \in Jobs :
        \/ JobStart(j)
        \/ Compute(j)
        \/ PklOpen(j)
        \/ PklDump(j)
        \/ NpzOpen(j)
        \/ NpzDump(j)
        \/ JobReturn(j)

\* a checkpoint access of a unit of work fails
JobFault == \E j \in Jobs : ReadFail(j) \/ WriteFail(j)

OrchStep ==
    \/ Setup
    \/ SetupFail
    \/ MapRaise
    \/ MapReturn
    \/ BatchOpen
    \/ BatchDump
    \/ BatchFail
    \/ OrchReturn

\* no key is derived: the jobs are the jobs 1 .. NJobs of a batch whose
\* network sizes are pairwise different, each with files of its own
KeysIdle ==
    /\ test_data_id = ""
    /\ network_sizes = <<>>
    /\ num_samples = <<>>
    /\ result_key = <<>>

\* no point-set operation is applied on its own
AlgIdle ==
    /\ setA = <<>>
    /\ setB = <<>>
    /\ out1 = <<>>
    /\ out2 = <<>>
    /\ apc = "idle"

\* baseline_comparison_experiments does not run
PipeIdle ==
    /\ pprocs = 0
    /\ ppc = "idle"
    /\ pjob = <<>>
    /\ prt = <<>>
    /\ tfile = <<>>
    /\ bfile = <<>>
    /\ timeout = <<>>
    /\ tvbread = <<>>

\* no batch with a hanging job is observed
HangIdle ==
    /\ hn = 0
    /\ hprocs = 0
    /\ hung = 0
    /\ hstat = <<>>

InitOrch == LoopIdle /\ OrchInit /\ KeysIdle /\ AlgIdle /\ PipeIdle /\ HangIdle

NextOrch == JobWork \/ JobFault \/ OrchStep \/ Kill

\* one run of one orchestrator, which may be killed at any point
SpecOrch == InitOrch /\ [][NextOrch]_vars

\* a batch of well-formed jobs that save their checkpoints, run in the calling
\* process or on a pool of one worker, killed at some point and run again; no
\* checkpoint access fails
InitResume == InitOrch /\ num_procs <= 1 /\ save_result /\ badjob = 0

NextResume ==
    \/ JobWork
    \/ Setup
    \/ MapReturn
    \/ BatchOpen
    \/ BatchDump
    \/ OrchReturn
    \/ Kill
    \/ Rerun

SpecResume == InitResume /\ [][NextResume]_vars

\* --------------------------------------------------------- checkpoint keys
\* test data ids a batch may be run with
TestDataIds == {"base", "base_N_1_s_0"}

\* the phases that save under a result_key, run_Wc_experiments included
KeyPhases == Phases \cup {"Wc"}

\* result_key of the s-th network of size N: run_traverse_experiments,
\* run_baseline_experiments, test_TvB, run_Wc_experiments
JobKey(ph, id, N, s) ==
    LET Ns == "_N_" \o ToString(N) \o "_s_" \o ToString(s)
    IN  CASE ph = "traverse" -> "traverse_" \o id \o Ns
          [] ph = "baseline" -> "baseline_" \o id \o Ns
          [] ph = "TvB"      -> "TvB_" \o id \o Ns
          [] ph = "Wc"       -> id \o "_Wc" \o Ns

\* name of the batch-level pickle, without 'results/' and '.pkl'
BatchKey(ph, id) ==
    CASE ph = "traverse" -> "traverse_" \o id
      [] ph = "baseline" -> "baseline_" \o id
      [] ph = "TvB"      -> "tvb_" \o id
      [] ph = "Wc"       -> id \o "_Wc"

\* for (N, S) in zip(network_sizes, num_samples): for s in range(S): the
\* jobs <<N, s>> in the order of pool_args
RECURSIVE PoolArgs(_, _)
PoolArgs(sizes, samples) ==
    IF sizes = <<>> \/ samples = <<>> THEN <<>>
    ELSE [s \in 1 .. Head(samples) |-> <<Head(sizes), s - 1>>]
         \o PoolArgs(Tail(sizes), Tail(samples))

\* test data as generate_test_data saves it: a list of sizes and a list of
\* sample counts, here with NJobs networks in all
TestData ==
    {d \in UNION {[1 .. m -> 1 .. MaxSize] \X [1 .. m -> 1 .. NJobs] :
                      m \in 1 .. NJobs} :
        Len(PoolArgs(d[1], d[2])) = NJobs}

\* a batch on a full pool, its keys derived from the test data
InitKeys ==
    /\ LoopIdle
    /\ AlgIdle
    /\ PipeIdle
    /\ HangIdle
    /\ OrchInit
    /\ num_procs = MaxProcs
    /\ badjob = 0
    /\ test_data_id \in TestDataIds
    /\ \E d \in TestData :
           /\ network_sizes = d[1]
           /\ num_samples = d[2]
    /\ result_key = [j \in Jobs |->
                        JobKey(phase, test_data_id,
                               PoolArgs(network_sizes, num_samples)[j][1],
                               PoolArgs(network_sizes, num_samples)[j][2])]

NextKeys ==
    \/ JobWork
    \/ Setup
    \/ MapReturn
    \/ BatchOpen
    \/ BatchDump
    \/ OrchReturn

\* one run of one orchestrator, no failure and no kill, with the keys of its
\* jobs
SpecKeys == InitKeys /\ [][NextKeys]_vars

\* ------------------------------------------- point-set operations alone
\* setdiff and union applied to point lists of any content, repeated and
\* neighboring points included
InitAlg ==
    /\ LoopIdle
    /\ OrchIdle
    /\ KeysIdle
    /\ PipeIdle
    /\ HangIdle
    /\ setA \in BSeq(MaxA)
    /\ setB \in BSeq(MaxB)
    /\ out1 = <<>>
    /\ out2 = <<>>
    /\ apc = "in"

\* setdiff(A, B)
ApplySetdiff ==
    /\ apc = "in"
    /\ out1' = setdiff(setA, setB)
    /\ apc' = "setdiff"
    /\ UNCHANGED <<setA, setB, out2>>
    /\ UNCHANGED <<lvars, ovars, kvars, pvars, hvars>>

\* union(A, B): the concatenation of A and B clustered
ApplyUnion ==
    /\ apc = "in"
    /\ out1' = union(setA, setB)
    /\ apc' = "union"
    /\ UNCHANGED <<setA, setB, out2>>
    /\ UNCHANGED <<lvars, ovars, kvars, pvars, hvars>>

\* the clustered list clustered again
ApplyUnionAgain ==
    /\ apc = "union"
    /\ out2' = union(out1, <<>>)
    /\ apc' = "union2"
    /\ UNCHANGED <<setA, setB, out1>>
    /\ UNCHANGED <<lvars, ovars, kvars, pvars, hvars>>

\* setdiff(A, empty), and A clustered alone
ApplySetdiffEmpty ==
    /\ apc = "in"
    /\ out1' = setdiff(setA, <<>>)
    /\ out2' = union(setA, <<>>)
    /\ apc' = "setdiff_empty"
    /\ UNCHANGED <<setA, setB>>
    /\ UNCHANGED <<lvars, ovars, kvars, pvars, hvars>>

\* setdiff(A, A)
ApplySetdiffSelf ==
    /\ apc = "in"
    /\ out1' = setdiff(setA, setA)
    /\ apc' = "setdiff_self"
    /\ UNCHANGED <<setA, setB, out2>>
    /\ UNCHANGED <<lvars, ovars, kvars, pvars, hvars>>

NextAlg ==
    \/ ApplySetdiff
    \/ ApplyUnion
    \/ ApplyUnionAgain
    \/ ApplySetdiffEmpty
    \/ ApplySetdiffSelf

SpecAlg == InitAlg /\ [][NextAlg]_vars

\* ------------------------------------------------------- specifications
\* ------------------------------------------- traverse against baseline
\* plausible slip: the two one-sided counts exchanged
test_TvB_swapped(fxV_traverse, fxV_baseline) ==
    LET T  == Len(fxV_traverse)
        Bn == Len(fxV_baseline)
        fxV_union == get_unique_points_recursively(fxV_traverse \o fxV_baseline,
                                                   idtol)
        TB == Len(fxV_union)
    IN  <<("T" :> T) @@ ("B" :> Bn) @@ ("T|B" :> TB) @@ ("T&B" :> T + Bn - TB)
             @@ ("T-B" :> TB - T) @@ ("B-T" :> TB - Bn),
          fxV_union>>

\* fxpt_experiments.py:514-543: the counts test_TvB reports and the union it
\* saves; the traverse points come first in the concatenation and the
\* clusterer runs under rfx.identical_fixed_points
test_TvB(fxV_traverse, fxV_baseline) ==
    LET T  == Len(fxV_traverse)
        Bn == Len(fxV_baseline)
        fxV_union == get_unique_points_recursively(fxV_traverse \o fxV_baseline,
                                                   idtol)
        TB == Len(fxV_union)
    IN  <<("T" :> T) @@ ("B" :> Bn) @@ ("T|B" :> TB) @@ ("T&B" :> T + Bn - TB)
             @@ ("T-B" :> TB - Bn) @@ ("B-T" :> TB - T),
          fxV_union>>

\* the fxV_unique arrays of the two checkpoints of a network: any candidate
\* lists post-processed (test_traverse 178-186, test_baseline 413-420)
InitTvB ==
    /\ LoopIdle
    /\ OrchIdle
    /\ KeysIdle
    /\ PipeIdle
    /\ HangIdle
    /\ \E rawT \in BSeq(MaxA), rawB \in BSeq(MaxA) :
        /\ setA = post_process_fxpts(rawT)
        /\ setB = post_process_fxpts(rawB)
    /\ out1 = <<>>
    /\ out2 = <<>>
    /\ apc = "in"

\* test_TvB on the two arrays: out1 is results, out2 is npz['fxV_union']
ApplyTvB ==
    /\ apc = "in"
    /\ out1' = test_TvB(setA, setB)[1]
    /\ out2' = test_TvB(setA, setB)[2]
    /\ apc' = "TvB"
    /\ UNCHANGED <<setA, setB>>
    /\ UNCHANGED <<lvars, ovars, kvars, pvars, hvars>>

NextTvB == ApplyTvB

SpecTvB == InitTvB /\ [][NextTvB]_vars

\* ------------------------------- traverse, then baseline, then comparison
PJobs == 1 .. MaxPipeJobs

\* the pickle and the arrays under one result key, as one file: the run that
\* wrote them (1: this call, 0: an earlier one), the 'runtime' of the record
\* and the last stage whose fields they hold
PRec(r, rt, stage) == [run |-> r, runtime |-> rt, stage |-> stage]

PAbsent == PRec(-1, 0, -1)

\* what an earlier call of the pipeline on the same test data left under a
\* result key: nothing, or the files of a job that went through its stages
Leftover == {PAbsent} \cup {PRec(0, v, 3) : v \in Vals}

\* a job waits (-1), is at work with s stages behind it, or has returned
PWaiting(j) == pjob[j] = -1

PDone(j) == pjob[j] = NumStages(ppc)

PActive(j) == ~PWaiting(j) /\ ~PDone(j)

\* run_traverse_experiments 236-243: save_result and save_npz
traverse_saves == pprocs > 0

InitPipe ==
    /\ LoopIdle
    /\ OrchIdle
    /\ KeysIdle
    /\ AlgIdle
    /\ HangIdle
    /\ pprocs \in 0 .. MaxProcs
    /\ ppc = "traverse"
    /\ pjob = [j \in PJobs |-> -1]
    /\ prt = [j \in PJobs |-> 0]
    /\ tfile \in [PJobs -> Leftover]
    /\ bfile \in [PJobs -> Leftover]
    /\ timeout = [j \in PJobs |-> 0]
    /\ tvbread = [j \in PJobs |-> <<>>]

\* the list comprehension takes the next job when the one before returned,
\* a free worker of the pool the next task of the queue
PStart(j) ==
    /\ ppc \in {"traverse", "baseline", "TvB"}
    /\ PWaiting(j)
    /\ \A i \in 1 .. j - 1 : ~PWaiting(i)
    /\ IF pprocs < 1
       THEN \A i \in 1 .. j - 1 : PDone(i)
       ELSE Cardinality({i \in PJobs : PActive(i)}) < pprocs
    /\ pjob' = [pjob EXCEPT ![j] = 0]
    /\ UNCHANGED <<pprocs, ppc, prt, tfile, bfile, timeout, tvbread>>
    /\ UNCHANGED <<lvars, ovars, kvars, avars, hvars>>

\* test_traverse: a stage and its saves; the first stage measures runtime
PTraverseStage(j) ==
    /\ ppc = "traverse"
    /\ PActive(j)
    /\ LET s == pjob[j] + 1
       IN  /\ pjob' = [pjob EXCEPT ![j] = s]
           /\ IF s = 1
              THEN \E rt \in Vals : prt' = [prt EXCEPT ![j] = rt]
              ELSE UNCHANGED prt
           /\ IF traverse_saves
              THEN tfile' = [tfile EXCEPT ![j] = PRec(1, prt'[j], s)]
              ELSE UNCHANGED tfile
    /\ UNCHANGED <<pprocs, ppc, bfile, timeout, tvbread>>
    /\ UNCHANGED <<lvars, ovars, kvars, avars, hvars>>

\* run_traverse_experiments returns; run_baseline_experiments reads the
\* runtime of every traverse pickle into the arguments of its jobs
PBaselineSetup ==
    /\ ppc = "traverse"
    /\ \A j \in PJobs : PDone(j)
    /\ \A j \in PJobs : tfile[j] # PAbsent
    /\ timeout' = [j \in PJobs |-> tfile[j].runtime]
    /\ ppc' = "baseline"
    /\ pjob' = [j \in PJobs |-> -1]
    /\ UNCHANGED <<pprocs, prt, tfile, bfile, tvbread>>
    /\ UNCHANGED <<lvars, ovars, kvars, avars, hvars>>

\* open('results/traverse_...pkl', 'r') finds no file: IOError
PBaselineSetupFail ==
    /\ ppc = "traverse"
    /\ \A j \in PJobs : PDone(j)
    /\ \E j \in PJobs : tfile[j] = PAbsent
    /\ ppc' = "raised"
    /\ UNCHANGED <<pprocs, pjob, prt, tfile, bfile, timeout, tvbread>>
    /\ UNCHANGED <<lvars, ovars, kvars, avars, hvars>>

\* test_baseline: a stage and its saves (save_result is always True); the
\* solver runs until its timeout, which is the runtime it records
PBaselineStage(j) ==
    /\ ppc = "baseline"
    /\ PActive(j)
    /\ pjob' = [pjob EXCEPT ![j] = pjob[j] + 1]
    /\ bfile' = [bfile EXCEPT ![j] = PRec(1, timeout[j], pjob[j] + 1)]
    /\ UNCHANGED <<pprocs, ppc, prt, tfile, timeout, tvbread>>
    /\ UNCHANGED <<lvars, ovars, kvars, avars, hvars>>

\* run_baseline_experiments returns; run_TvB_experiments builds its jobs
PTvBSetup ==
    /\ ppc = "baseline"
    /\ \A j \in PJobs : PDone(j)
    /\ ppc' = "TvB"
    /\ pjob' = [j \in PJobs |-> -1]
    /\ UNCHANGED <<pprocs, prt, tfile, bfile, timeout, tvbread>>
    /\ UNCHANGED <<lvars, ovars, kvars, avars, hvars>>

\* test_TvB: the first stage loads the arrays of both result files (both
\* exist: the baseline setup read one, the baseline job wrote the other)
PTvBStage(j) ==
    /\ ppc = "TvB"
    /\ PActive(j)
    /\ pjob' = [pjob EXCEPT ![j] = pjob[j] + 1]
    /\ IF pjob[j] = 0
       THEN tvbread' = [tvbread EXCEPT ![j] = <<tfile[j], bfile[j]>>]
       ELSE UNCHANGED tvbread
    /\ UNCHANGED <<pprocs, ppc, prt, tfile, bfile, timeout>>
    /\ UNCHANGED <<lvars, ovars, kvars, avars, hvars>>

\* run_TvB_experiments and baseline_comparison_experiments return
PReturn ==
    /\ ppc = "TvB"
    /\ \A j \in PJobs : PDone(j)
    /\ ppc' = "returned"
    /\ UNCHANGED <<pprocs, pjob, prt, tfile, bfile, timeout, tvbread>>
    /\ UNCHANGED <<lvars, ovars, kvars, avars, hvars>>

NextPipe ==
    \/ \E j \in PJobs : PStart(j)
    \/ \E j \in PJobs : PTraverseStage(j)
    \/ PBaselineSetup
    \/ PBaselineSetupFail
    \/ \E j \in PJobs : PBaselineStage(j)
    \/ PTvBSetup
    \/ \E j \in PJobs : PTvBStage(j)
    \/ PReturn

SpecPipe == InitPipe /\ [][NextPipe]_vars

\* ------------------------------------------- a pool with a hanging job
HJobs == 1 .. hn

\* pool.map(test_fun, pool_args) with no chunksize: the job list is cut into
\* tasks of ceil(len(pool_args) / (4 * processes)) consecutive jobs
chunksize(n, procs) == (n + 4 * procs - 1) \div (4 * procs)

\* the task job j belongs to
ChunkOf(j) == (j - 1) \div chunksize(hn, hprocs) + 1

FirstOfChunk(j) == j = 1 \/ ChunkOf(j - 1) # ChunkOf(j)

\* a worker has taken the task and not finished all its jobs
ChunkTaken(c) == \E i \in HJobs : ChunkOf(i) = c /\ hstat[i] # "wait"

ChunkAtWork(c) ==
    /\ ChunkTaken(c)
    /\ \E i \in HJobs : ChunkOf(i) = c /\ hstat[i] # "done"

Chunks == {ChunkOf(j) : j \in HJobs}

InitHang ==
    /\ LoopIdle
    /\ OrchIdle
    /\ KeysIdle
    /\ AlgIdle
    /\ PipeIdle
    /\ hn \in 1 .. MaxBatch
    /\ hprocs \in 2 .. MaxPool
    /\ hung \in 1 .. hn
    /\ hstat = [j \in 1 .. hn |-> "wait"]

\* a free worker takes the next task of the queue and calls test_fun on its
\* first job; a worker calls test_fun on the next job of its task when the
\* call before returned
HStart(j) ==
    /\ j \in HJobs
    /\ hstat[j] = "wait"
    /\ IF FirstOfChunk(j)
       THEN /\ \A c \in Chunks : c < ChunkOf(j) => ChunkTaken(c)
            /\ Cardinality({c \in Chunks : ChunkAtWork(c)}) < hprocs
       ELSE hstat[j - 1] = "done"
    /\ hstat' = [hstat EXCEPT ![j] = "run"]
    /\ UNCHANGED <<hn, hprocs, hung>>
    /\ UNCHANGED <<lvars, ovars, kvars, avars, pvars>>

\* test_baseline returns, its last checkpoint written; the solver call of
\* the job hung never returns
HFinish(j) ==
    /\ j \in HJobs
    /\ hstat[j] = "run"
    /\ j # hung
    /\ hstat' = [hstat EXCEPT ![j] = "done"]
    /\ UNCHANGED <<hn, hprocs, hung>>
    /\ UNCHANGED <<lvars, ovars, kvars, avars, pvars>>

NextHang ==
    \/ \E j \in 1 .. MaxBatch : HStart(j)
    \/ \E j \in 1 .. MaxBatch : HFinish(j)

\* every worker process keeps running
SpecHang ==
    /\ InitHang
    /\ [][NextHang]_vars
    /\ \A j \in 1 .. MaxBatch : WF_vars(HStart(j)) /\ WF_vars(HFinish(j))

\* tb_combo.py:41-42: no sample is tallied yet
FirstSample == all_cloops = 0 /\ all_comps = 0

\* everything but the frontier script is at rest
OthersIdle == OrchIdle /\ KeysIdle /\ AlgIdle /\ PipeIdle /\ HangIdle

Init == LoopInit /\ FirstSample /\ OthersIdle

Next == Step \/ Tally

Spec == Init /\ [][Next]_vars

\* The loop with the pending seed chosen freely at every step: the processing
\* orders the tie-break rule of the frontier loop speaks about.
StepAny == \E i \in 1 .. MaxRef + 1 : StepAt(i)

NextAnyOrder == StepAny \/ Tally

SpecAnyOrder == Init /\ [][NextAnyOrder]_vars

\* a later sample of the for loop: the totals hold the tallies of the samples
\* before it
InitSamples ==
    /\ LoopInit
    /\ all_comps \in 0 .. MaxPrior
    /\ all_cloops \in 0 .. all_comps
    /\ OthersIdle

SpecSamples == InitSamples /\ [][Next]_vars

\* the initial frontier, tb_combo.py:56
seeds0 == setdiff(B, found[1])

\* the found set of the current component, found[k] of the script
foundNow == found[k + 1]

\* the found set the script's own order (first pending seed first) ends with,
\* started from found set f and frontier s
RECURSIVE FifoFound(_, _)
FifoFound(f, s) ==
    IF s = <<>> THEN f
    ELSE LET fxV == post_process_fxpts(
                        raw_points(s[1], solver[s[1]][1], solver[s[1]][2]))
         IN  FifoFound(union(f, fxV), setdiff(Tail(s), fxV))

\* ------------------------------------------------------------------ C1
\* C1: the loop ends after at most |initial frontier| steps: steps taken plus
\* seeds still pending never exceed the initial frontier's size, a step is
\* possible whenever a seed is pending, and the tally is reached only with
\* an empty frontier.
C1_StepsBoundedByInitialFrontier ==
    /\ k + Len(seeds) <= Len(seeds0)
    /\ (lpc = "loop" /\ Len(seeds) > 0) => ENABLED Step
    /\ lpc = "done" => (Len(seeds) = 0 /\ k <= Len(seeds0))

\* the worst case: a terminated run that took one step per frontier point
C1_Witness == lpc = "done" /\ k = Len(seeds0) /\ k >= 2

\* ------------------------------------------------------------------ C2
\* C2: in every step the frontier does not grow and the found set does not
\* shrink.
C2_FrontierAndFoundMonotone ==
    [][k' = k + 1 =>
          /\ Len(seeds') <= Len(seeds)
          /\ Len(found'[k' + 1]) >= Len(found[k + 1])]_vars

\* ------------------------------------------------------------------ C3
\* C3: whichever pending seed is popped at each step, the final found set is
\* the set the first-seed-first order ends with.
C3_OrderIrrelevant ==
    lpc = "done" => SetOf(foundNow) = SetOf(FifoFound(found[1], seeds0))

\* C3, amended: whichever pending seed is popped at each step, the loop ends
\* with an empty frontier, and the final found set holds every popped seed
\* and, once a step was taken, every representative of the initial found set
\* clustered under neighbors.
C3_OrderIndependentPart ==
    lpc = "done" =>
        /\ Len(seeds) = 0
        /\ \A j \in 2 .. k + 1 : seed[j] \in SetOf(foundNow)
        /\ k >= 1 =>
               SetOf(get_unique_points_recursively(found[1], Tol))
                   \subseteq SetOf(foundNow)

\* a run that popped a seed other than the first and ended with a found set
\* the first-seed-first order does not end with
C3_Witness ==
    /\ lpc = "done"
    /\ k >= 1
    /\ seed[2] # seeds0[1]
    /\ SetOf(foundNow) # SetOf(FifoFound(found[1], seeds0))

\* ------------------------------------------------------------------ C4
\* C4: when the loop has ended every reference point has a neighbor in the
\* final found set.
C4_ReferenceExplained ==
    lpc = "done" =>
        \A r \in SetOf(B) : \E p \in SetOf(foundNow) : neighbors(p, r)

\* ------------------------------------------------------------------ C5
\* the result of job j's unit of work
result(j) == Rec(j, jval[j], NumStages(phase))

\* C5: the list an orchestrator returns holds the result of the i-th submitted
\* job at position i, whatever the order in which the workers finished.
C5_ResultsInSubmissionOrder ==
    opc = "returned" =>
        /\ DOMAIN ret = Jobs
        /\ \A i \in Jobs : ret[i] = result(i)

\* a pool returned after some job finished before an earlier one
C5_Witness == opc = "returned" /\ num_procs > 1 /\ ooo

\* ------------------------------------------------------------------ C6
\* the last stage up to s that saves the arrays
ArrayStage(ph, s) ==
    CHOOSE t \in 1 .. s :
        WritesNpz(ph, t) /\ \A u \in t + 1 .. s : ~WritesNpz(ph, u)

\* the files under job j's key are absent, or the complete summary of one
\* stage with the arrays saved at that stage
CheckpointWhole(j) ==
    \/ pkl[j] = Absent /\ npz[j] = Absent
    \/ /\ pkl[j].stage >= 1
       /\ pkl[j].key = j
       /\ npz[j] = Rec(j, pkl[j].val, ArrayStage(phase, pkl[j].stage))

\* C6: wherever the batch is killed, each job's checkpoint is absent or the
\* complete record of one stage.
C6_CrashLeavesWholeStage ==
    opc = "killed" => \A j \in Jobs : CheckpointWhole(j)

\* ------------------------------------------------------------------ C7
\* job j's final-stage summary was on disk when the re-run started
FinalAtRestart(j) == pkl0[j].stage = NumStages(phase)

\* C7: a re-run after a kill returns, for every job whose final-stage
\* checkpoint already existed, that checkpoint, without running the job again.
C7_RerunReusesCheckpoints ==
    (run = 2 /\ opc = "returned") =>
        \A j \in Jobs :
            FinalAtRestart(j) => (ret[j] = pkl0[j] /\ jval[j] = 0)

\* ------------------------------------------------------------------ C8
\* C8: when the orchestrator has ended and the only thing that went wrong was
\* a dimension mismatch inside a job, it has returned the list with the
\* failure in that job's entry, every other job has run to its end, and the
\* batch-level pickle holds the list.
C8_JobFailureIsData ==
    \A j \in Jobs :
        (/\ opc \in {"returned", "raised"}
         /\ jerr[j] = "ValueError"
         /\ \A i \in Jobs : jerr[i] # "IOError"
         /\ oerr \in {"none", "ValueError"})
        => /\ opc = "returned"
           /\ ret[j] # result(j)
           /\ \A i \in Jobs \ {j} : Done(i) /\ ret[i] = result(i)
           /\ batch = ret

\* ------------------------------------------------------------------ C9
\* a checkpoint read or write failed inside a job or in the setup
PersistenceFailure ==
    \/ \E j \in Jobs : jerr[j] = "IOError"
    \/ oerr = "IOError in setup"

\* C9: after a checkpoint failure inside a job or in the setup the
\* orchestrator never returns a list and never writes the batch-level pickle:
\* it has raised, or pool.map is about to raise in it.
C9_PersistenceFailurePropagates ==
    PersistenceFailure =>
        /\ opc \in {"run", "raised"}
        /\ opc = "run" => ENABLED MapRaise
        /\ opc = "raised" => oerr # "none"
        /\ ret = <<>>
        /\ batch = <<>>
        /\ bwrites = 0

\* a pool in which a sibling finished and the IOError of a job reached the
\* caller
C9_Witness ==
    /\ opc = "raised"
    /\ oerr = "IOError"
    /\ num_procs > 0
    /\ \E j \in Jobs : Done(j)

\* ----------------------------------------------------------------- C10
\* C10: the batch-level pickle is touched only when every job has returned
\* and the list is complete, it is dumped at most once, and what is dumped is
\* the list that is returned.
C10_BatchSavedOnceAfterAllJobs ==
    /\ bwrites <= 1
    /\ (opc # "killed" /\ (batch # <<>> \/ bwrites > 0)) =>
           /\ \A j \in Jobs : Done(j)
           /\ pool_results = value
           /\ \A j \in Jobs : pool_results[j] = result(j)
    /\ opc \in {"return", "returned"} => (bwrites = 1 /\ batch = pool_results)
    /\ opc = "returned" => batch = ret

\* a pool of MaxProcs workers returned after saving the list
C10_Witness ==
    opc = "returned" /\ num_procs = MaxProcs /\ bwrites = 1 /\ batch = ret

\* ----------------------------------------------------------------- C11
\* job j has results/<result_key>.pkl open for writing
WritingPkl(j) == Active(j) /\ jpc[j][2] = "pkl_dump"

\* job j has results/<result_key>.npz open for writing
WritingNpz(j) == Active(j) /\ jpc[j][2] = "npz_dump"

\* C11: no job key is a batch-level key or a job key of another phase, and
\* never do two jobs have the same file open for writing, nor a job any file
\* while the batch-level pickle is written.
C11_NoTwoWritersOnOneKey ==
    /\ \A ph, qh \in KeyPhases, N, M \in 1 .. MaxSize, s, t \in 0 .. NJobs - 1 :
           /\ JobKey(ph, test_data_id, N, s) # BatchKey(qh, test_data_id)
           /\ ph # qh =>
                  JobKey(ph, test_data_id, N, s) # JobKey(qh, test_data_id, M, t)
    /\ opc = "save_dump" => \A j \in Jobs : ~WritingPkl(j) /\ ~WritingNpz(j)
    /\ \A i, j \in Jobs :
           (/\ i # j
            /\ \/ WritingPkl(i) /\ WritingPkl(j)
               \/ WritingNpz(i) /\ WritingNpz(j))
           => result_key[i] # result_key[j]

\* ----------------------------------------------------------------- C12
\* C12: after every step the found set holds a point that is a neighbor of
\* the popped seed, and the found set has grown by at least one point.
C12_SeedEntersFound ==
    [][k' = k + 1 =>
          /\ \E p \in SetOf(found'[k' + 1]) : neighbors(p, seed'[k' + 1])
          /\ Len(found'[k' + 1]) >= Len(found[k + 1]) + 1]_vars

\* ----------------------------------------------------------------- C13
\* C13: whatever status the run returned, the step clusters the seed and the
\* returned points, unites them with the found set, subtracts them from the
\* rest of the frontier and appends to the history; the loop goes on while a
\* seed is pending.
C13_StatusNeverStopsLoop ==
    /\ [](Len(seeds) > 0 => (lpc = "loop" /\ ENABLED Step))
    /\ [][k' = k + 1 =>
          LET sd  == seeds[1]
              fxV == post_process_fxpts(<<sd>> \o solver[sd][2])
          IN  /\ seed' = Append(seed, sd)
              /\ statuses' = Append(statuses, solver[sd][1])
              /\ new' = Append(new, fxV)
              /\ found' = Append(found, union(found[k + 1], fxV))
              /\ seeds' = setdiff(Tail(seeds), fxV)
              /\ lpc' = "loop"]_vars

\* a run that did not succeed returned a point, the point entered the found
\* set, and the loop went on to another seed
C13_Witness ==
    /\ k >= 2
    /\ statuses[2] # "Success"
    /\ Len(new[2]) >= 2
    /\ new[2][2] \in SetOf(found[2])

\* ----------------------------------------------------------------- C14
\* C14: a step whose run signalled Failure leaves the found set as it was and
\* records the failure.
C14_FailureAddsNothing ==
    [][(k' = k + 1 /\ statuses'[k' + 1] = "Failure") =>
          found'[k' + 1] = found[k + 1]]_vars

\* C14, amended: a step whose run signalled Failure records the failure and
\* still adds its seed, which was not in the found set, to the found set.
C14_FailureStillAddsSeed ==
    \A j \in 2 .. k + 1 :
        statuses[j] = "Failure" =>
            /\ seed[j] \in SetOf(found[j])
            /\ seed[j] \notin SetOf(found[j - 1])
            /\ SetOf(new[j]) \ SetOf(found[j - 1]) # {}

\* a failed run whose seed and returned point both entered the found set
C14_Witness ==
    /\ k >= 1
    /\ statuses[2] = "Failure"
    /\ Len(found[2]) >= Len(found[1]) + 2

\* ----------------------------------------------------------------- C15
\* the scenario on the diagonal of the plane, [t, t] written t: the point
\* [0.9, 0.9] is MaxCoord, the point [-0.9, -0.9] is 0
C15_Scenario ==
    /\ B = <<MaxCoord, 0>>
    /\ found[1] = <<MaxCoord>>
    /\ solver[0] = <<"Success", <<0>>>>

KeptPositions(A, Bs) ==
    {j \in 1 .. Len(A) : \A i \in 1 .. Len(Bs) : ~neighbors(Bs[i], A[j])}

\* C16: setdiff(A, B) is the list of the points of A at the positions with no
\* neighbor in B, in A's order and with A's repetitions; it is empty when
\* there is no such position.
C16_SetdiffIsOrderedFilter ==
    apc = "setdiff" =>
        LET K == KeptPositions(setA, setB)
        IN  /\ Len(out1) = Cardinality(K)
            /\ \A j \in K : out1[Cardinality({i \in K : i <= j})] = setA[j]
            /\ K = {} => out1 = <<>>

\* a point that occurs twice in A is kept twice, the point between the two
\* occurrences is removed
C16_Witness ==
    /\ apc = "setdiff"
    /\ Len(setA) = 3
    /\ setA[1] = setA[3]
    /\ out1 = <<setA[1], setA[3]>>
    /\ setB # <<>>

\* ----------------------------------------------------------------- C17
\* the positions of X whose point the greedy scan makes a representative: a
\* position is one iff no earlier one of them holds a neighbor of its point
IsGreedy(X, S) ==
    \A j \in 1 .. Len(X) :
        j \in S <=> \A i \in S : i < j => ~neighbors(X[i], X[j])

\* C17: the clustered list is the list of the greedy representatives in input
\* order; no two of its points are neighbors, every input point has a
\* neighbor in it, and [a, c, b] with a~b, b~c, not a~c yields [a, c].
C17_ClusterIsGreedy ==
    apc = "union" =>
        LET X == setA \o setB
        IN  /\ \E S \in SUBSET (1 .. Len(X)) :
                   /\ IsGreedy(X, S)
                   /\ Len(out1) = Cardinality(S)
                   /\ \A j \in S : out1[Cardinality({i \in S : i <= j})] = X[j]
            /\ \A m, n \in 1 .. Len(out1) :
                   m # n => ~neighbors(out1[m], out1[n])
            /\ \A j \in 1 .. Len(X) :
                   \E n \in 1 .. Len(out1) : neighbors(out1[n], X[j])
            /\ X = <<0, 2, 1>> => out1 = <<0, 2>>

\* the input [a, c, b] with b a neighbor of both and a, c no neighbors
C17_Witness ==
    /\ apc = "union"
    /\ setA \o setB = <<0, 2, 1>>
    /\ out1 = <<0, 2>>

\* ----------------------------------------------------------------- C18
\* C18: clustering the clustered list again returns it unchanged.
C18_ClusterIdempotent ==
    apc = "union2" =>
        /\ out2 = out1
        /\ Len(out2) = Len(out1)
        /\ SetOf(out1) \subseteq SetOf(out2)

\* a list with neighboring points, clustered to two or more points and
\* clustered again
C18_Witness ==
    /\ apc = "union2"
    /\ Len(out1) >= 2
    /\ Len(out1) < Len(setA) + Len(setB)
    /\ out2 = out1

\* ----------------------------------------------------------------- C19
\* C19: setdiff(A, empty) has as many points as A clustered alone.
C19_DiffEmptyCountsClusters ==
    apc = "setdiff_empty" => Len(out1) = Len(out2)

\* C19, amended: setdiff(A, empty) is A itself, neighboring and repeated
\* points included; it has as many points as A clustered alone exactly when
\* no two points of A are neighbors.
C19_DiffEmptyIsIdentity ==
    apc = "setdiff_empty" =>
        /\ out1 = setA
        /\ Len(out1) = Len(out2) <=>
               \A m, n \in 1 .. Len(setA) :
                   m # n => ~neighbors(setA[m], setA[n])

\* a list with neighboring points: the difference keeps them all, the
\* clustering does not
C19_Witness ==
    /\ apc = "setdiff_empty"
    /\ Len(setA) = 3
    /\ out1 = setA
    /\ Len(out2) < Len(out1)

\* ----------------------------------------------------------------- C20
\* C20: setdiff(A, A) is the empty list.
C20_DiffSelfIsEmpty ==
    apc = "setdiff_self" => out1 = <<>>

\* a list of the greatest length, with points that are no neighbors
C20_Witness ==
    /\ apc = "setdiff_self"
    /\ Len(setA) = MaxA
    /\ ~neighbors(setA[1], setA[2])
    /\ out1 = <<>>

\* ----------------------------------------------------------------- C21
\* C21: union(A, B) is the concatenation of A followed by B, clustered under
\* neighbors; it has at most |A| + |B| points, and union(A, empty) is A
\* clustered alone.
C21_UnionIsClusteredConcatenation ==
    /\ apc = "union" =>
           /\ out1 = get_unique_points_recursively(setA \o setB, Tol)
           /\ Len(out1) <= Len(setA) + Len(setB)
           /\ setB = <<>> => out1 = get_unique_points_recursively(setA, Tol)
    /\ apc = "setdiff_empty" =>
           /\ out2 = get_unique_points_recursively(setA, Tol)
           /\ Len(out2) <= Len(setA)

\* neighboring points within A and across A and B: the union is shorter than
\* the concatenation and still holds a point of B
C21_Witness ==
    /\ apc = "union"
    /\ Len(setA) >= 2
    /\ neighbors(setA[1], setA[2])
    /\ setB # <<>>
    /\ Len(out1) < Len(setA) + Len(setB)
    /\ \E n \in 1 .. Len(out1) : out1[n] \notin SetOf(setA)


C23_SameEffectsForAnyWorkerCount ==
    (opc = "returned" /\ run = 1) =>
        /\ \A j \in Jobs : ret[j] = result(j)
        /\ batch = ret
        /\ \A j \in Jobs :
               /\ pkl[j] = result(j)
               /\ npz[j] = Rec(j, jval[j], ArrayStage(phase, NumStages(phase)))


\* C24: in baseline_comparison_experiments, whatever num_procs, the timeout
\* of each baseline job is the runtime in the checkpoint the traverse job of
\* the same network wrote in this run, read when the whole traverse batch
\* was through, and every TvB job loads a traverse and a baseline record of
\* this run that hold the post-processed points.
C24_BaselineTimeoutFromSameRun ==
    \A j \in PJobs :
        /\ timeout[j] # 0 =>
               /\ timeout[j] = prt[j]
               /\ tfile[j] = PRec(1, prt[j], 3)
               /\ \A i \in PJobs : prt[i] # 0
        /\ tvbread[j] # <<>> =>
               /\ tvbread[j][1].run = 1 /\ tvbread[j][1].stage >= 2
               /\ tvbread[j][2].run = 1 /\ tvbread[j][2].stage >= 2


\* C25: when the solver call of one job never returns and the pool has at
\* least two workers that keep running, every other job of the batch is
\* eventually run to completion and writes its last checkpoint.
C25_OtherJobsComplete ==
    <>(\A j \in HJobs : j # hung => hstat[j] = "done")


\* C26: after the initialisation and after every step, no two distinct
\* points of the current found set are neighbors.
C26_FoundHasNoNearDuplicates ==
    \A i, j \in 1 .. Len(foundNow) :
        i # j => ~neighbors(foundNow[i], foundNow[j])


\* C28: after the initialisation and after every step no pending seed is a
\* neighbor of a point of the current found set, and the pending seeds are
\* exactly the reference points with no neighbor in it.
C28_FrontierIsUnexplainedReference ==
    /\ \A s \in SetOf(seeds), p \in SetOf(foundNow) : ~neighbors(p, s)
    /\ SetOf(seeds) =
           {r \in SetOf(B) : \A p \in SetOf(foundNow) : ~neighbors(p, r)}


\* C27: the history holds one placeholder entry and then one entry (seed,
\* status, new points) per step, appended in processing order and never
\* changed; the closed-loop count of a sample is the number of step entries
\* with status 'Closed loop detected', at most the number of steps; the
\* tally adds the sample's closed loops and steps to the cross-sample totals.
C27_HistoryAndTally ==
    /\ [](/\ Len(seed) = k + 1
          /\ Len(statuses) = k + 1
          /\ Len(new) = k + 1
          /\ seed[1] = 0 /\ statuses[1] = "success" /\ new[1] = <<>>
          /\ lpc = "done" =>
                 /\ cloops = Cardinality({j \in 2 .. k + 1 :
                                   statuses[j] = "Closed loop detected"})
                 /\ cloops <= k)
    /\ [][k' = k + 1 =>
             /\ SubSeq(seed', 1, k + 1) = seed
             /\ SubSeq(statuses', 1, k + 1) = statuses
             /\ SubSeq(new', 1, k + 1) = new
             /\ seed'[k' + 1] = seeds[1]
             /\ statuses'[k' + 1] = solver[seeds[1]][1]
             /\ SetOf(new'[k' + 1]) \subseteq
                    {seeds[1]} \cup SetOf(solver[seeds[1]][2])]_vars
    /\ [][(lpc = "loop" /\ lpc' = "done") =>
             /\ k' = k /\ statuses' = statuses
             /\ all_cloops' = all_cloops + cloops'
             /\ all_comps' = all_comps + k]_vars

\* a sample of two steps, one of them a closed loop, tallied on top of the
\* totals of the samples before it
C27_Witness ==
    /\ lpc = "done"
    /\ k = 2
    /\ cloops = 1
    /\ statuses[3] = "Closed loop detected"
    /\ all_comps = 3
    /\ all_cloops = 2


\* ----------------------------------------------------------------- C29
\* s can be obtained from t by deleting elements, the order of the others
\* kept
RECURSIVE IsSubseq(_, _)
IsSubseq(s, t) ==
    IF s = <<>> THEN TRUE
    ELSE IF t = <<>> THEN FALSE
    ELSE IF s[1] = t[1] THEN IsSubseq(Tail(s), Tail(t))
    ELSE IsSubseq(s, Tail(t))

\* the seeds the steps took so far, in the order they were taken
popped == SubSeq(seed, 2, k + 1)

\* C29: the frontier never gains a point: the seeds taken so far followed by
\* the pending ones are an order-preserving subsequence of the initial
\* frontier, itself one of the reference set; a step takes the first pending
\* seed and removes it and every other pending seed that is a neighbor of a
\* new point; no reference point is taken twice.
C29_FrontierOnlyShrinks ==
    /\ [](/\ IsSubseq(popped \o seeds, seeds0)
          /\ IsSubseq(seeds0, B)
          /\ \A i, j \in 1 .. Len(popped) : i # j => popped[i] # popped[j])
    /\ [][k' = k + 1 =>
             /\ seed'[k' + 1] = seeds[1]
             /\ seeds' = SelectSeq(Tail(seeds),
                             LAMBDA x : ~\E n \in 1 .. Len(new'[k' + 1]) :
                                             neighbors(new'[k' + 1][n], x))
             /\ Len(seeds') < Len(seeds)]_vars

\* two steps that took the first and then the second point of the initial
\* frontier
C29_Witness ==
    /\ k = 2
    /\ Len(seeds0) = 2
    /\ seed[2] = seeds0[1]
    /\ seed[3] = seeds0[2]
    /\ seeds = <<>>


\* ----------------------------------------------------------------- C30
\* the keys a unit of work adds to its results dictionary in stage s
StageFields(ph, s) ==
    IF ph = "traverse" THEN
        IF s = 1 THEN {"result_key", "status", "runtime", "N", "num_steps",
                       "path_length", "min_s_min", "num_fxV"}
        ELSE IF s = 2 THEN {"post_runtime", "num_fxV_unique"}
        ELSE {"num_V_found"}
    ELSE IF ph = "baseline" THEN
        IF s = 1 THEN {"result_key", "runtime", "N", "num_reps", "num_fxV"}
        ELSE IF s = 2 THEN {"post_runtime", "num_fxV_unique"}
        ELSE {"num_V_found"}
    ELSE
        IF s = 1 THEN {"result_key", "N", "T", "B"}
        ELSE IF s = 2 THEN {"T|B", "T&B", "T-B", "B-T"}
        ELSE IF s = 3 THEN {"baseline_dist", "traverse_dist"}
        ELSE {"baseline_dist_v", "traverse_dist_v"}

\* the keys it adds to its npz dictionary in stage s
StageArrays(ph, s) ==
    IF ph = "traverse" THEN
        IF s = 1 THEN {"W", "V", "VA", "fxV", "c", "residuals"}
        ELSE IF s = 2 THEN {"fxV_unique", "fxV_converged"}
        ELSE {"V_found"}
    ELSE IF ph = "baseline" THEN
        IF s = 1 THEN {"W", "V", "fxV"}
        ELSE IF s = 2 THEN {"fxV_unique", "fxV_converged"}
        ELSE {"V_found"}
    ELSE
        IF s = 1 THEN {"W", "fxV_baseline", "fxV_traverse"}
        ELSE IF s = 2 THEN {"fxV_union"}
        ELSE {}

\* plausible change: every stage saves a dictionary of its own
ResultFields_per_stage(ph, s) == {"result_key"} \cup StageFields(ph, s)

\* the keys of the results dictionary when stage s saves it: one dictionary
\* is created in the first stage and only ever added to
ResultFields(ph, s) == UNION {StageFields(ph, t) : t \in 1 .. s}

ArrayFields(ph, s) == UNION {StageArrays(ph, t) : t \in 1 .. s}

\* the dictionary a checkpoint record stands for: every entry is computed
\* once, from the job's inputs and the outcome of its first stage
results_dict(ph, rec) ==
    [f \in ResultFields(ph, rec.stage) |->
        IF f = "result_key" THEN <<rec.key>> ELSE <<f, rec.key, rec.val>>]

npz_dict(ph, rec) ==
    [f \in ArrayFields(ph, rec.stage) |-> <<f, rec.key, rec.val>>]

\* dictionary d2 has every entry of d1
Extends(d1, d2) ==
    /\ DOMAIN d1 \subseteq DOMAIN d2
    /\ \A f \in DOMAIN d1 : d1[f] = d2[f]

\* the record job j saves in the stage it is in
saving(j) == Rec(j, jval[j], jpc[j][1])

\* C30: within one job every save overwrites the checkpoint with a dictionary
\* that has every field of the dictionary it replaces, with the same value:
\* the summary and the arrays only gain fields from stage to stage.
C30_CheckpointsOnlyGrow ==
    [][\A j \in Jobs :
          /\ (pkl[j].stage >= 1 /\ pkl'[j] # pkl[j]) =>
                 /\ pkl'[j] = Truncated
                 /\ saving(j)' = saving(j)
                 /\ saving(j).stage = pkl[j].stage + 1
                 /\ Extends(results_dict(phase, pkl[j]),
                            results_dict(phase, saving(j)))
                 /\ DOMAIN results_dict(phase, pkl[j]) #
                        DOMAIN results_dict(phase, saving(j))
          /\ (pkl[j] = Truncated /\ pkl'[j] # pkl[j]) => pkl'[j] = saving(j)
          /\ (npz[j].stage >= 1 /\ npz'[j] # npz[j]) =>
                 /\ npz'[j] = Truncated
                 /\ saving(j)' = saving(j)
                 /\ Extends(npz_dict(phase, npz[j]),
                            npz_dict(phase, saving(j)))
          /\ (npz[j] = Truncated /\ npz'[j] # npz[j]) => npz'[j] = saving(j)]_vars

\* a comparison job whose summary was overwritten three times and whose
\* arrays once
C30_Witness ==
    \E j \in Jobs :
        /\ phase = "TvB"
        /\ pkl[j] = result(j)
        /\ npz[j] = Rec(j, jval[j], 2)
        /\ DOMAIN results_dict(phase, pkl[j]) = ResultFields("TvB", 4)


\* C31: for traverse and baseline sets that are each free of near-duplicates
\* under the comparison predicate, the union count test_TvB reports is at
\* least the size of either set, so 'T&B', 'T-B' and 'B-T' are not negative
\* and 'T&B' is at most the size of the smaller set.
C31_CountsNotNegative ==
    apc = "TvB" =>
        /\ out1["T|B"] >= Len(setA)
        /\ out1["T|B"] >= Len(setB)
        /\ out1["T&B"] >= 0
        /\ out1["T-B"] >= 0
        /\ out1["B-T"] >= 0
        /\ out1["T&B"] <= Len(setA)
        /\ out1["T&B"] <= Len(setB)

==============================================================================
